---- MODULE Spec2Model ----
(***************************************************************************)
(* The retrieval-augmented response pipeline of ragBackend:                *)
(*   backend/llmModels/rag.py   CustomRAGService                           *)
(*   backend/db/chatMemory.py   RedisMemoryManager (the Redis session log) *)
(*   backend/api/v1/chat.py     the /chat and /chat/history endpoints      *)
(* and its document ingestion:                                             *)
(*   backend/services/services.py  construction of the services at import  *)
(*   backend/api/v1/ingestion.py   upload_document                         *)
(*   backend/db/vector.py          the vector index                        *)
(*   backend/db/database.py        the relational document and chunk rows  *)
(*                                                                         *)
(* Similarity scores are modelled in hundredths (0.7 is 70).  Texts are    *)
(* TLA+ strings, so lengths and concatenations are the real ones.  The     *)
(* "timestamp" field of a stored message is left out: no code path reads   *)
(* it.                                                                     *)
(***************************************************************************)
EXTENDS Integers, Sequences, FiniteSets, TLC

VARIABLES
    max_context_length, \* CustomRAGService.max_context_length (constructor argument)
    store,              \* Redis: session_id -> list of messages (absent key = empty list)
    ttl,                \* Redis: session_id -> remaining time-to-live of the key, or NoTtl
    pc,                 \* per request handler: the await it is suspended at
    call,               \* per request handler: the locals of chat() / generate_response()
    nreq,               \* number of /chat requests accepted so far
    fn_in,              \* input of the pure function under check (SpecGate, SpecContext)
    fn_out,             \* <<its result>>, or Pending before it is applied
    server,             \* the process: its settings and how far the import of services.py got
    vectors,            \* the points of the vector index collection
    rows,               \* the committed rows of the documents and chunks tables
    up                  \* per upload handler: the await it is suspended at and its locals

\* The state of document ingestion.
ingest == <<server, vectors, rows, up>>

vars == <<max_context_length, store, ttl, pc, call, nreq, fn_in, fn_out, ingest>>

\* ------------------------------------------------------------------ bounds

\* Longest result list the vector index returns in Spec (at most top_k).
MaxResults == 2
\* Number of clock ticks that make up the Redis time-to-live.
TtlTicks == 2

\* ------------------------------------------------------- program constants

\* Settings.retrieval_top_k
top_k == 5
\* Settings.similarity_threshold, in hundredths
similarity_threshold == 70
\* max_messages of the history window read by generate_response
max_messages == 6

Pending == <<>>
\* What the Redis TTL command reports for a key with no expiry.
NoTtl == 0 - 1

\* ----------------------------------------------------------------- helpers

Min(a, b) == IF a < b THEN a ELSE b

RECURSIVE Rep(_)
\* A text of n characters.
Rep(n) == IF n = 0 THEN "" ELSE "x" \o Rep(n - 1)

RECURSIVE Join(_, _)
\* sep.join(parts)
Join(parts, sep) ==
    IF Len(parts) = 0 THEN ""
    ELSE IF Len(parts) = 1 THEN parts[1]
    ELSE parts[1] \o sep \o Join(Tail(parts), sep)

\* ------------------------------------------------------ the vector index

\* One search hit, as QdrantStore.search returns it.
Hit(id, score, text, doc, filename) ==
    [id |-> id, score |-> score,
     metadata |-> [chunk_text |-> text, document_id |-> doc, filename |-> filename]]

\* ------------------------------------------------ retrieve_relevant_chunks

\* relevant_chunks with a seeded fault: a score equal to the threshold is dropped.
relevant_chunks_strict(results) ==
    LET keep(r) == r.score > similarity_threshold
        conv(r) == [chunk_id |-> r.id, text |-> r.metadata.chunk_text, score |-> r.score,
                    document_id |-> r.metadata.document_id, filename |-> r.metadata.filename]
        kept == SelectSeq(results, keep)
    IN  [i \in 1..Len(kept) |-> conv(kept[i])]

\* The list comprehension of retrieve_relevant_chunks: the hits at or above the
\* threshold, in the order of the result list, converted to chunk dicts.
relevant_chunks(results) ==
    LET keep(r) == r.score >= similarity_threshold
        conv(r) == [chunk_id |-> r.id, text |-> r.metadata.chunk_text, score |-> r.score,
                    document_id |-> r.metadata.document_id, filename |-> r.metadata.filename]
        kept == SelectSeq(results, keep)
    IN  [i \in 1..Len(kept) |-> conv(kept[i])]

\* ---------------------------------------------------------- _build_context

RECURSIVE included_skip(_, _, _, _)
\* included with a seeded fault: the loop passes over a chunk that does not
\* fit (continue for break) and goes on counting later chunks that do.
included_skip(chunks, i, total_length, budget) ==
    IF i > Len(chunks) THEN 0
    ELSE IF total_length + Len(chunks[i].text) > budget
         THEN included_skip(chunks, i + 1, total_length, budget)
    ELSE 1 + included_skip(chunks, i + 1, total_length + Len(chunks[i].text), budget)

RECURSIVE included(_, _, _, _)
\* The for loop of _build_context from chunk i on, with total_length characters
\* of chunk text taken so far: the number of chunks appended to context_parts.
included(chunks, i, total_length, budget) ==
    IF i > Len(chunks) THEN 0
    ELSE IF total_length + Len(chunks[i].text) > budget THEN 0
    ELSE 1 + included(chunks, i + 1, total_length + Len(chunks[i].text), budget)

\* The block appended for the i-th chunk.
context_part(i, chunk) ==
    "[Source " \o ToString(i) \o " - " \o chunk.filename \o "]\n" \o chunk.text

context_parts(chunks, budget) ==
    [i \in 1..included(chunks, 1, 0, budget) |-> context_part(i, chunks[i])]

_build_context(chunks, budget) ==
    IF Len(chunks) = 0 THEN "" ELSE Join(context_parts(chunks, budget), "\n\n")

\* ------------------------------------------------ the requests' state

\* The /chat requests of a behaviour: each is one run of chat().  Spec runs the
\* first two concurrently, SpecSeq all three one after the other.
Procs == {"r1", "r2"}
SeqProcs == {"r1", "r2", "r3"}
AllProcs == Procs \cup SeqProcs
Sessions == {"s1", "s2"}
\* The message text a request carries and the answer the model gives it: one
\* text per request, so that a stored message names the request it came from.
Queries(p) == {"ask-" \o p}
Answers(p) == {"ans-" \o p}

\* The locals of a request that has not arrived.
NoCall ==
    [seq |-> 0, session_id |-> "", query |-> "", use_rag |-> FALSE,
     conversation_history |-> "", sources |-> <<>>, context |-> "",
     system_prompt |-> "", messages |-> <<>>, response |-> "",
     embed_calls |-> 0, search_calls |-> 0, llm_calls |-> 0, pushed |-> 0,
     failed_at |-> "", status |-> 0, body |-> [message |-> "", sources |-> <<>>]]

\* The state after module import and startup_event: an empty Redis, no request yet.
\* The /api/v1/documents/upload requests of a behaviour.
Uploads == {"u1", "u2"}

NoUpload ==
    [pc |-> "idle", filename |-> "", chunking_strategy |-> "", n_chunks |-> 0,
     document_id |-> "", work |-> {}, session |-> {}, status |-> 0]

\* The values the settings accept for the two service types: vector_db_type
\* is any string, llm_provider one of two literals.
VectorDbTypes == {"qdrant", "weaviate"}
LlmProviders == {"openai", "anthropic"}

NoRows == [documents |-> {}, chunks |-> {}]

\* services.py imported with the default settings, nothing ingested yet.
ServicesReady ==
    /\ server = [phase |-> "serving", vector_db_type |-> "qdrant",
                 llm_provider |-> "openai"]
    /\ vectors = {}
    /\ rows = NoRows
    /\ up = [u \in Uploads |-> NoUpload]

InitServer ==
    /\ ServicesReady
    /\ store = [s \in Sessions |-> <<>>]
    /\ ttl = [s \in Sessions |-> NoTtl]
    /\ pc = [p \in AllProcs |-> "idle"]
    /\ call = [p \in AllProcs |-> NoCall]
    /\ nreq = 0

\* ---------------------------------------------------- RedisMemoryManager

\* Redis LRANGE key start stop on a list: 0-based inclusive indices, negative
\* ones counted from the end, out-of-range ones clipped.
lrange(list, start, stop) ==
    LET n == Len(list)
        a0 == IF start < 0 THEN n + start ELSE start
        a == IF a0 < 0 THEN 0 ELSE a0
        b0 == IF stop < 0 THEN n + stop ELSE stop
        b == IF b0 >= n THEN n - 1 ELSE b0
    IN  IF a > b \/ a >= n THEN <<>> ELSE SubSeq(list, a + 1, b + 1)

\* get_history with a seeded fault: the window is taken from the head of the list.
get_history_head(list, limit) ==
    IF limit # <<>> /\ limit[1] # 0
    THEN lrange(list, 0, limit[1] - 1)
    ELSE lrange(list, 0, -1)

\* get_history: limit is Optional[int], <<>> for None and <<n>> for n.  A falsy
\* limit (None or 0) reads the whole list.
get_history(list, limit) ==
    IF limit # <<>> /\ limit[1] # 0
    THEN lrange(list, 0 - limit[1], -1)
    ELSE lrange(list, 0, -1)

\* str.title() on the roles the service stores.
Title(role) ==
    CASE role = "user" -> "User"
      [] role = "assistant" -> "Assistant"
      [] role = "system" -> "System"
      [] OTHER -> role

get_context_window(list, window) ==
    LET history == get_history(list, <<window>>)
    IN  IF Len(history) = 0 THEN ""
        ELSE Join([i \in 1..Len(history) |->
                      Title(history[i].role) \o ": " \o history[i].content], "\n\n")

\* ------------------------------------------------------ generate_response

GroundedHead ==
    "You are a helpful AI assistant. Use the following context from documents to answer the user's question. If the context doesn't contain relevant information, say so and provide a helpful response based on your general knowledge.\n\n                Context from documents:\n                "

GroundedTail ==
    "\n\n                Guidelines:\n                - Answer based on the context when possible\n                - Be concise and accurate\n                - If booking an interview, guide the user through the process\n                - Be conversational and friendly\n                "

\* The system prompt with the context embedded.
GroundedPrompt(context) == GroundedHead \o context \o GroundedTail

UngroundedPrompt ==
    "You are a helpful AI assistant. The knowledge base doesn't contain information relevant to this query. Provide a helpful response based on your general knowledge, or guide the user to ask questions related to the available documents."

PlainPrompt ==
    "You are a helpful AI assistant. Answer the user's questions in a friendly and informative manner."

\* Assemble with a seeded fault: the grounded prompt is chosen whenever use_rag is set.
Assemble_alwaysGrounded(c, budget) ==
    LET context == IF c.use_rag THEN _build_context(c.sources, budget) ELSE ""
        system_prompt == IF c.use_rag THEN GroundedPrompt(context) ELSE PlainPrompt
        first == <<[role |-> "system", content |-> system_prompt]>>
        previous ==
            IF c.conversation_history # ""
            THEN <<[role |-> "system",
                    content |-> "Previous conversation:\n" \o c.conversation_history]>>
            ELSE <<>>
        last == <<[role |-> "user", content |-> c.query]>>
    IN  [c EXCEPT !.context = context, !.system_prompt = system_prompt,
                  !.messages = first \o previous \o last]

\* Assemble with a seeded fault: the previous-conversation entry is added even
\* when the history is empty.
Assemble_historyAlways(c, budget) ==
    LET context == IF c.use_rag /\ Len(c.sources) > 0
                   THEN _build_context(c.sources, budget) ELSE ""
        system_prompt ==
            IF c.use_rag
            THEN IF Len(c.sources) > 0 THEN GroundedPrompt(context) ELSE UngroundedPrompt
            ELSE PlainPrompt
        first == <<[role |-> "system", content |-> system_prompt]>>
        previous == <<[role |-> "system",
                       content |-> "Previous conversation:\n" \o c.conversation_history]>>
        last == <<[role |-> "user", content |-> c.query]>>
    IN  [c EXCEPT !.context = context, !.system_prompt = system_prompt,
                  !.messages = first \o previous \o last]

\* The synchronous part of generate_response between retrieval and the model
\* call: the branch on sources, the context, the system prompt and the message
\* list.  c holds use_rag, sources, conversation_history and query.
Assemble(c, budget) ==
    LET context == IF c.use_rag /\ Len(c.sources) > 0
                   THEN _build_context(c.sources, budget) ELSE ""
        system_prompt ==
            IF c.use_rag
            THEN IF Len(c.sources) > 0 THEN GroundedPrompt(context) ELSE UngroundedPrompt
            ELSE PlainPrompt
        first == <<[role |-> "system", content |-> system_prompt]>>
        previous ==
            IF c.conversation_history # ""
            THEN <<[role |-> "system",
                    content |-> "Previous conversation:\n" \o c.conversation_history]>>
            ELSE <<>>
        last == <<[role |-> "user", content |-> c.query]>>
    IN  [c EXCEPT !.context = context, !.system_prompt = system_prompt,
                  !.messages = first \o previous \o last]

\* ------------------------------------------------------------ chat endpoint

\* Texts are runs of one character, so the first 200 characters of a longer
\* text are Rep(200).
preview(text) == IF Len(text) > 200 THEN Rep(200) \o "..." ELSE text

\* formatted_sources of chat(); round(score, 3) changes no score in hundredths.
formatted_sources(sources) ==
    [i \in 1..Len(sources) |->
        [chunk_id |-> sources[i].chunk_id, filename |-> sources[i].filename,
         relevance_score |-> sources[i].score, preview |-> preview(sources[i].text)]]

\* ------------------------------------------------------------------- Spec

\* The chunks the index holds in Spec and the scores it reports for them.
IndexChunks ==
    { [id |-> "c1", text |-> Rep(5), doc |-> "d1", filename |-> "a.txt"],
      [id |-> "c2", text |-> Rep(12), doc |-> "d2", filename |-> "b.pdf"] }
IndexScores == {60, 70}
\* The context budgets the service is constructed with in Spec.
SpecBudgets == {10}

\* The result lists search can return: at most MaxResults (and top_k) hits on
\* distinct chunks, by descending score.
SearchResults ==
    UNION {
        { r \in [1..n -> { Hit(c.id, sc, c.text, c.doc, c.filename) :
                             c \in IndexChunks, sc \in IndexScores }] :
            /\ \A i, j \in 1..n : i < j => r[i].id # r[j].id
            /\ \A i \in 1..(n - 1) : r[i].score >= r[i + 1].score }
        : n \in 0..Min(MaxResults, top_k) }

Init ==
    /\ InitServer
    /\ max_context_length \in SpecBudgets
    /\ fn_in = <<>>
    /\ fn_out = Pending

\* An exception leaves generate_response and is caught by chat(), which answers
\* HTTP 500; no answer and no sources are returned.
Raise(p, where) ==
    /\ pc' = [pc EXCEPT ![p] = "failed"]
    /\ call' = [call EXCEPT ![p].failed_at = where, ![p].status = 500]

\* POST /chat arrives: chat() calls generate_response, which sets sources = []
\* and awaits the history window.
ChatRequest(p, s, q, r) ==
    /\ pc[p] = "idle"
    /\ nreq' = nreq + 1
    /\ pc' = [pc EXCEPT ![p] = "get_history"]
    /\ call' = [call EXCEPT ![p] = [NoCall EXCEPT !.seq = nreq + 1, !.session_id = s,
                                                  !.query = q, !.use_rag = r]]
    /\ UNCHANGED <<ingest, max_context_length, store, ttl, fn_in, fn_out>>

\* HistoryRead with a seeded fault: retrieval is entered whatever use_rag says.
HistoryRead_alwaysRetrieve(p) ==
    /\ pc[p] = "get_history"
    /\ call' = [call EXCEPT ![p].conversation_history =
                   get_context_window(store[call[p].session_id], max_messages)]
    /\ pc' = [pc EXCEPT ![p] = "embed"]
    /\ UNCHANGED <<ingest, max_context_length, store, ttl, nreq, fn_in, fn_out>>

\* get_context_window returns; without RAG the prompt is assembled at once.
HistoryRead(p) ==
    /\ pc[p] = "get_history"
    /\ LET c == [call[p] EXCEPT !.conversation_history =
                     get_context_window(store[call[p].session_id], max_messages)]
       IN  IF c.use_rag
           THEN /\ call' = [call EXCEPT ![p] = c]
                /\ pc' = [pc EXCEPT ![p] = "embed"]
           ELSE /\ call' = [call EXCEPT ![p] = Assemble(c, max_context_length)]
                /\ pc' = [pc EXCEPT ![p] = "llm"]
    /\ UNCHANGED <<ingest, max_context_length, store, ttl, nreq, fn_in, fn_out>>

\* get_history raises (client missing, Redis unreachable).
HistoryFail(p) ==
    /\ pc[p] = "get_history"
    /\ Raise(p, "history")
    /\ UNCHANGED <<ingest, max_context_length, store, ttl, nreq, fn_in, fn_out>>

\* embedding_service.generate_embedding(query) returns.
Embed(p) ==
    /\ pc[p] = "embed"
    /\ call' = [call EXCEPT ![p].embed_calls = @ + 1]
    /\ pc' = [pc EXCEPT ![p] = "search"]
    /\ UNCHANGED <<ingest, max_context_length, store, ttl, nreq, fn_in, fn_out>>

EmbedFail(p) ==
    /\ pc[p] = "embed"
    /\ pc' = [pc EXCEPT ![p] = "failed"]
    /\ call' = [call EXCEPT ![p].embed_calls = @ + 1,
                            ![p].failed_at = "embedding", ![p].status = 500]
    /\ UNCHANGED <<ingest, max_context_length, store, ttl, nreq, fn_in, fn_out>>

\* vector_store.search returns results; the threshold filter, the context and
\* the message list follow without a suspension.
Search(p, results) ==
    /\ pc[p] = "search"
    /\ LET c == [call[p] EXCEPT !.search_calls = @ + 1,
                                !.sources = relevant_chunks(results)]
       IN  call' = [call EXCEPT ![p] = Assemble(c, max_context_length)]
    /\ pc' = [pc EXCEPT ![p] = "llm"]
    /\ UNCHANGED <<ingest, max_context_length, store, ttl, nreq, fn_in, fn_out>>

SearchFail(p) ==
    /\ pc[p] = "search"
    /\ pc' = [pc EXCEPT ![p] = "failed"]
    /\ call' = [call EXCEPT ![p].search_calls = @ + 1,
                            ![p].failed_at = "search", ![p].status = 500]
    /\ UNCHANGED <<ingest, max_context_length, store, ttl, nreq, fn_in, fn_out>>

\* llm_service.generate_response returns the answer a.
Llm(p, a) ==
    /\ pc[p] = "llm"
    /\ call' = [call EXCEPT ![p].llm_calls = @ + 1, ![p].response = a]
    /\ pc' = [pc EXCEPT ![p] = "rpush_user"]
    /\ UNCHANGED <<ingest, max_context_length, store, ttl, nreq, fn_in, fn_out>>

\* LlmFail with a seeded fault: the user message was stored before the model was called.
LlmFail_userStoredFirst(p) ==
    /\ pc[p] = "llm"
    /\ pc' = [pc EXCEPT ![p] = "failed"]
    /\ store' = [store EXCEPT ![call[p].session_id] =
                    Append(@, [role |-> "user", content |-> call[p].query])]
    /\ call' = [call EXCEPT ![p].llm_calls = @ + 1,
                            ![p].failed_at = "llm", ![p].status = 500]
    /\ UNCHANGED <<ingest, max_context_length, ttl, nreq, fn_in, fn_out>>

\* llm_service.generate_response raises.
LlmFail(p) ==
    /\ pc[p] = "llm"
    /\ pc' = [pc EXCEPT ![p] = "failed"]
    /\ call' = [call EXCEPT ![p].llm_calls = @ + 1,
                            ![p].failed_at = "llm", ![p].status = 500]
    /\ UNCHANGED <<ingest, max_context_length, store, ttl, nreq, fn_in, fn_out>>

\* The message add_message pushes at this point of generate_response.
Pushing(p) ==
    IF pc[p] = "rpush_user"
    THEN [role |-> "user", content |-> call[p].query]
    ELSE [role |-> "assistant", content |-> call[p].response]

\* Rpush with a seeded fault: LPUSH, the message goes to the head of the list.
Rpush_lpush(p) ==
    /\ pc[p] \in {"rpush_user", "rpush_assistant"}
    /\ store' = [store EXCEPT ![call[p].session_id] = <<Pushing(p)>> \o @]
    /\ call' = [call EXCEPT ![p].pushed = @ + 1]
    /\ pc' = [pc EXCEPT ![p] = IF pc[p] = "rpush_user" THEN "expire_user"
                                                      ELSE "expire_assistant"]
    /\ UNCHANGED <<ingest, max_context_length, ttl, nreq, fn_in, fn_out>>

\* Rpush with a seeded fault: a per-session lock, an exchange's two pushes
\* wait while another request on the session is between its own two.
Rpush_locked(p) ==
    /\ pc[p] \in {"rpush_user", "rpush_assistant"}
    /\ \A o \in AllProcs \ {p} :
          call[o].session_id = call[p].session_id =>
              pc[o] \notin {"expire_user", "rpush_assistant"}
    /\ store' = [store EXCEPT ![call[p].session_id] = Append(@, Pushing(p))]
    /\ call' = [call EXCEPT ![p].pushed = @ + 1]
    /\ pc' = [pc EXCEPT ![p] = IF pc[p] = "rpush_user" THEN "expire_user"
                                                      ELSE "expire_assistant"]
    /\ UNCHANGED <<ingest, max_context_length, ttl, nreq, fn_in, fn_out>>

\* Rpush with a seeded fault: every session is stored under one key.
Rpush_sharedKey(p) ==
    /\ pc[p] \in {"rpush_user", "rpush_assistant"}
    /\ store' = [store EXCEPT !["s1"] = Append(@, Pushing(p))]
    /\ call' = [call EXCEPT ![p].pushed = @ + 1]
    /\ pc' = [pc EXCEPT ![p] = IF pc[p] = "rpush_user" THEN "expire_user"
                                                      ELSE "expire_assistant"]
    /\ UNCHANGED <<ingest, max_context_length, ttl, nreq, fn_in, fn_out>>

\* add_message, first await: RPUSH.  A key that did not exist is created
\* without a time-to-live; an existing key keeps the one it has.
Rpush(p) ==
    /\ pc[p] \in {"rpush_user", "rpush_assistant"}
    /\ store' = [store EXCEPT ![call[p].session_id] = Append(@, Pushing(p))]
    /\ call' = [call EXCEPT ![p].pushed = @ + 1]
    /\ pc' = [pc EXCEPT ![p] = IF pc[p] = "rpush_user" THEN "expire_user"
                                                      ELSE "expire_assistant"]
    /\ UNCHANGED <<ingest, max_context_length, ttl, nreq, fn_in, fn_out>>

RpushFail(p) ==
    /\ pc[p] \in {"rpush_user", "rpush_assistant"}
    /\ Raise(p, pc[p])
    /\ UNCHANGED <<ingest, max_context_length, store, ttl, nreq, fn_in, fn_out>>

\* chat() after generate_response returned: the 200 response.
Respond(c) ==
    [c EXCEPT !.status = 200,
              !.body = [message |-> c.response, sources |-> formatted_sources(c.sources)]]

\* add_message, second await: EXPIRE key ttl (no effect on a missing key).
\* After the assistant message generate_response returns (response, sources)
\* and chat() builds the ChatResponse.
Expire(p) ==
    /\ pc[p] \in {"expire_user", "expire_assistant"}
    /\ ttl' = [ttl EXCEPT ![call[p].session_id] =
                  IF store[call[p].session_id] # <<>> THEN TtlTicks ELSE @]
    /\ IF pc[p] = "expire_user"
       THEN /\ pc' = [pc EXCEPT ![p] = "rpush_assistant"]
            /\ UNCHANGED call
       ELSE /\ pc' = [pc EXCEPT ![p] = "done"]
            /\ call' = [call EXCEPT ![p] = Respond(call[p])]
    /\ UNCHANGED <<ingest, max_context_length, store, nreq, fn_in, fn_out>>

ExpireFail(p) ==
    /\ pc[p] \in {"expire_user", "expire_assistant"}
    /\ Raise(p, pc[p])
    /\ UNCHANGED <<ingest, max_context_length, store, ttl, nreq, fn_in, fn_out>>

\* DELETE /chat/history/{session_id}: clear_history deletes the key.
ClearHistory(s) ==
    /\ store[s] # <<>>
    /\ store' = [store EXCEPT ![s] = <<>>]
    /\ ttl' = [ttl EXCEPT ![s] = NoTtl]
    /\ UNCHANGED <<ingest, max_context_length, pc, call, nreq, fn_in, fn_out>>

\* One clock tick: Redis deletes the keys whose time-to-live runs out.
Tick ==
    /\ \E s \in Sessions : ttl[s] # NoTtl
    /\ ttl' = [s \in Sessions |->
                  IF ttl[s] = NoTtl \/ ttl[s] = 1 THEN NoTtl ELSE ttl[s] - 1]
    /\ store' = [s \in Sessions |-> IF ttl[s] = 1 THEN <<>> ELSE store[s]]
    /\ UNCHANGED <<ingest, max_context_length, pc, call, nreq, fn_in, fn_out>>

\* The steps of a request whose external calls all succeed.
Step(p) ==
    \/ \E s \in Sessions, q \in Queries(p), r \in BOOLEAN : ChatRequest(p, s, q, r)
    \/ HistoryRead(p)
    \/ Embed(p)
    \/ \E results \in SearchResults : Search(p, results)
    \/ \E a \in Answers(p) : Llm(p, a)
    \/ Rpush(p)
    \/ Expire(p)

\* An external call raises.
Fail(p) ==
    \/ HistoryFail(p)
    \/ EmbedFail(p)
    \/ SearchFail(p)
    \/ LlmFail(p)
    \/ RpushFail(p)
    \/ ExpireFail(p)

Next ==
    \/ \E p \in Procs : Step(p)
    \/ \E p \in Procs : Fail(p)
    \/ \E s \in Sessions : ClearHistory(s)
    \/ Tick

Spec == Init /\ [][Next]_vars

\* ---------------------------------------------------------------- SpecSeq

\* Successive turns: a request starts only when no other is in flight, every
\* external call succeeds, and no session is cleared or expires.
SeqStep(p) ==
    /\ \A o \in AllProcs \ {p} : pc[o] \in {"idle", "done"}
    /\ Step(p)

NextSeq == \E p \in SeqProcs : SeqStep(p)

SpecSeq == Init /\ [][NextSeq]_vars

\* ------------------------------------------------------------- SpecWindow

\* Number of earlier turns a session log may already hold in SpecWindow.
MaxEarlierTurns == 4

\* The log k earlier successful turns leave behind.
EarlierLog(k) ==
    [i \in 1..(2 * k) |->
        IF i % 2 = 1
        THEN [role |-> "user", content |-> "ask-t" \o ToString((i + 1) \div 2)]
        ELSE [role |-> "assistant", content |-> "ans-t" \o ToString(i \div 2)]]

\* A server whose sessions hold the logs of earlier turns, each with the
\* time-to-live its last add_message set.
InitWindow ==
    /\ store \in [Sessions -> { EarlierLog(k) : k \in 0..MaxEarlierTurns }]
    /\ ttl = [s \in Sessions |-> IF store[s] = <<>> THEN NoTtl ELSE TtlTicks]
    /\ ServicesReady
    /\ pc = [p \in AllProcs |-> "idle"]
    /\ call = [p \in AllProcs |-> NoCall]
    /\ nreq = 0
    /\ max_context_length \in SpecBudgets
    /\ fn_in = <<>>
    /\ fn_out = Pending

\* Two further turns, one after the other.
NextWindow == \E p \in Procs : SeqStep(p)

SpecWindow == InitWindow /\ [][NextWindow]_vars

\* --------------------------------------------------------------- SpecRead

\* The limits a reader asks for.
ReadLimits == {0, 2, 6, 20}

\* GET /chat_history with a seeded fault: the read refreshes the time-to-live.
get_chat_history_touch(s, limit) ==
    /\ fn_in' = [op |-> "get_history", session_id |-> s, limit |-> limit,
                 log |-> store[s]]
    /\ fn_out' = <<get_history(store[s], <<limit>>)>>
    /\ ttl' = [ttl EXCEPT ![s] = IF store[s] = <<>> THEN NoTtl ELSE TtlTicks]
    /\ UNCHANGED <<ingest, max_context_length, store, pc, call, nreq>>

\* GET /chat_history: get_history(session_id, limit = limit).  fn_in records the
\* read and the list it was served from, fn_out the messages returned.
get_chat_history(s, limit) ==
    /\ fn_in' = [op |-> "get_history", session_id |-> s, limit |-> limit,
                 log |-> store[s]]
    /\ fn_out' = <<get_history(store[s], <<limit>>)>>
    /\ UNCHANGED <<ingest, max_context_length, store, ttl, pc, call, nreq>>

\* memory_manager.get_context_window(session_id, max_messages) on its own.
ContextWindowRead(s, max) ==
    /\ fn_in' = [op |-> "get_context_window", session_id |-> s, limit |-> max,
                 log |-> store[s]]
    /\ fn_out' = <<get_context_window(store[s], max)>>
    /\ UNCHANGED <<ingest, max_context_length, store, ttl, pc, call, nreq>>

\* One session holds the log of earlier turns; readers, one chat request,
\* DELETE /chat/history and the clock run against it.
InitRead ==
    /\ \E k \in 0..MaxEarlierTurns :
          store = [s \in Sessions |-> IF s = "s1" THEN EarlierLog(k) ELSE <<>>]
    /\ ttl = [s \in Sessions |-> IF store[s] = <<>> THEN NoTtl ELSE TtlTicks]
    /\ ServicesReady
    /\ pc = [p \in AllProcs |-> "idle"]
    /\ call = [p \in AllProcs |-> NoCall]
    /\ nreq = 0
    /\ max_context_length \in SpecBudgets
    /\ fn_in = <<>>
    /\ fn_out = Pending

NextRead ==
    \/ \E s \in Sessions, limit \in ReadLimits : get_chat_history(s, limit)
    \/ \E s \in Sessions, max \in ReadLimits : ContextWindowRead(s, max)
    \/ Step("r1")
    \/ \E s \in Sessions : ClearHistory(s)
    \/ Tick

SpecRead == InitRead /\ [][NextRead]_vars

\* ------------------------------------------------------------- SpecExpiry

\* One request and the clock, on a session that may already hold a log with a
\* running time-to-live; every external call succeeds and no session is
\* cleared.
NextExpiry ==
    \/ Step("r1")
    \/ Tick

SpecExpiry == InitRead /\ [][NextExpiry]_vars

\* ------------------------------------------------------ document ingestion

\* Most chunks the chunking of one upload yields.
MaxChunks == 2

UploadFiles == {"a.pdf", "b.txt", "c.docx"}
ChunkingStrategies == {"fixed", "semantic", "bogus"}

\* file.filename.endswith(('.pdf', '.txt'))
supported_file(filename) == filename \in {"a.pdf", "b.txt"}

\* str(uuid.uuid4()): a fresh id for each upload that gets that far.
new_document_id(u) == "doc-" \o u

\* The points upload_document upserts: one per chunk, under a fresh uuid, with
\* the document_id in the payload.
points(u) ==
    { [id |-> "pt-" \o u \o "-" \o ToString(idx), document_id |-> up[u].document_id]
      : idx \in 0..(up[u].n_chunks - 1) }

\* The ChunkMetadata rows save_chunks adds to the session.
chunk_objects(u) ==
    { [table |-> "chunks", id |-> up[u].document_id \o "_chunk_" \o ToString(idx),
       document_id |-> up[u].document_id]
      : idx \in 0..(up[u].n_chunks - 1) }

\* The DocumentMetadata row save_document_metadata adds to the session.
doc_metadata(u) == [table |-> "documents", id |-> up[u].document_id]

\* The import of services.py: create_vector_store() then create_llm_service()
\* run at module level; a ValueError there ends the process before it serves.
ConstructServices ==
    /\ server.phase = "importing"
    /\ server' = [server EXCEPT !.phase =
                     IF server.vector_db_type = "qdrant" /\ server.llm_provider = "openai"
                     THEN "serving" ELSE "crashed"]
    /\ UNCHANGED <<max_context_length, store, ttl, pc, call, nreq, fn_in, fn_out,
                   vectors, rows, up>>

\* The HTTPException an upload ends with; the database session, if one is
\* open, is rolled back.
UploadRaise(u, code) ==
    up' = [up EXCEPT ![u].pc = "failed", ![u].status = code, ![u].session = {}]

\* POST /api/v1/documents/upload arrives: the file type check.  The chunking
\* strategy is a plain form string and is not looked at here.
UploadRequest(u, filename, strategy) ==
    /\ server.phase = "serving"
    /\ up[u].pc = "idle"
    /\ IF supported_file(filename)
       THEN up' = [up EXCEPT ![u].pc = "read", ![u].filename = filename,
                             ![u].chunking_strategy = strategy]
       ELSE up' = [up EXCEPT ![u].pc = "failed", ![u].status = 400,
                             ![u].filename = filename,
                             ![u].chunking_strategy = strategy]
    /\ UNCHANGED <<max_context_length, store, ttl, pc, call, nreq, fn_in, fn_out,
                   server, vectors, rows>>

\* await file.read() returns: the size check.
FileRead(u, too_large) ==
    /\ up[u].pc = "read"
    /\ IF too_large THEN UploadRaise(u, 400)
       ELSE up' = [up EXCEPT ![u].pc = "extract"]
    /\ UNCHANGED <<max_context_length, store, ttl, pc, call, nreq, fn_in, fn_out,
                   server, vectors, rows>>

\* Text extraction returns; a blank text is a 400.
Extract(u, blank) ==
    /\ up[u].pc = "extract"
    /\ IF blank
       THEN up' = [up EXCEPT ![u].pc = "failed", ![u].status = 400,
                             ![u].work = @ \cup {"extract"}]
       ELSE up' = [up EXCEPT ![u].pc = "chunk", ![u].work = @ \cup {"extract"}]
    /\ UNCHANGED <<max_context_length, store, ttl, pc, call, nreq, fn_in, fn_out,
                   server, vectors, rows>>

\* chunking_service.chunk_text(text, chunking_strategy): an unknown strategy
\* raises ValueError here, which the handler turns into a 500; no chunks is a
\* 400; otherwise the document id is drawn.
Chunk(u, n) ==
    /\ up[u].pc = "chunk"
    /\ IF up[u].chunking_strategy \notin {"fixed", "semantic"}
       THEN UploadRaise(u, 500)
       ELSE IF n = 0
       THEN up' = [up EXCEPT ![u].pc = "failed", ![u].status = 400,
                             ![u].work = @ \cup {"chunk"}]
       ELSE up' = [up EXCEPT ![u].pc = "embed", ![u].n_chunks = n,
                             ![u].document_id = new_document_id(u),
                             ![u].work = @ \cup {"chunk"}]
    /\ UNCHANGED <<max_context_length, store, ttl, pc, call, nreq, fn_in, fn_out,
                   server, vectors, rows>>

\* embedding_service.generate_embeddings(chunks) returns.
EmbedChunks(u) ==
    /\ up[u].pc = "embed"
    /\ up' = [up EXCEPT ![u].pc = "upsert", ![u].work = @ \cup {"embed"}]
    /\ UNCHANGED <<max_context_length, store, ttl, pc, call, nreq, fn_in, fn_out,
                   server, vectors, rows>>

\* vector_store.upsert_vectors returns: the points are in the collection.
upsert_vectors(u) ==
    /\ up[u].pc = "upsert"
    /\ vectors' = vectors \cup points(u)
    /\ up' = [up EXCEPT ![u].pc = "save_document", ![u].work = @ \cup {"upsert"}]
    /\ UNCHANGED <<max_context_length, store, ttl, pc, call, nreq, fn_in, fn_out,
                   server, rows>>

\* save_document_metadata: session.add and flush, inside the open session.
save_document_metadata(u) ==
    /\ up[u].pc = "save_document"
    /\ up' = [up EXCEPT ![u].pc = "save_chunks", ![u].session = @ \cup {doc_metadata(u)},
                        ![u].work = @ \cup {"save"}]
    /\ UNCHANGED <<max_context_length, store, ttl, pc, call, nreq, fn_in, fn_out,
                   server, vectors, rows>>

\* save_chunks: session.add_all and flush.
save_chunks(u) ==
    /\ up[u].pc = "save_chunks"
    /\ up' = [up EXCEPT ![u].pc = "commit", ![u].session = @ \cup chunk_objects(u)]
    /\ UNCHANGED <<max_context_length, store, ttl, pc, call, nreq, fn_in, fn_out,
                   server, vectors, rows>>

\* get_session exits: commit, then the 201 response.
Commit(u) ==
    /\ up[u].pc = "commit"
    /\ rows' = [documents |-> rows.documents
                                \cup { r \in up[u].session : r.table = "documents" },
                chunks |-> rows.chunks
                             \cup { r \in up[u].session : r.table = "chunks" }]
    /\ up' = [up EXCEPT ![u].pc = "done", ![u].status = 201, ![u].session = {}]
    /\ UNCHANGED <<max_context_length, store, ttl, pc, call, nreq, fn_in, fn_out,
                   server, vectors>>

\* An awaited call of the try block raises (PDF parsing, embedding service,
\* vector index, database): except Exception answers 500.
UploadFail(u) ==
    /\ \/ up[u].pc = "extract" /\ up[u].filename = "a.pdf"
       \/ up[u].pc \in {"embed", "upsert", "save_document", "save_chunks", "commit"}
    /\ UploadRaise(u, 500)
    /\ UNCHANGED <<max_context_length, store, ttl, pc, call, nreq, fn_in, fn_out,
                   server, vectors, rows>>

\* vector_store.delete_by_document_id(document_id): the points whose payload
\* carries the id are deleted from the collection.
delete_by_document_id(document_id) ==
    /\ server.phase = "serving"
    /\ \E v \in vectors : v.document_id = document_id
    /\ vectors' = { v \in vectors : v.document_id # document_id }
    /\ UNCHANGED <<max_context_length, store, ttl, pc, call, nreq, fn_in, fn_out,
                   server, rows, up>>

\* ------------------------------------------------------------- SpecIngest

\* A process about to import services.py, under any settings.
InitIngest ==
    /\ server \in [phase : {"importing"}, vector_db_type : VectorDbTypes,
                   llm_provider : LlmProviders]
    /\ vectors = {}
    /\ rows = NoRows
    /\ up = [u \in Uploads |-> NoUpload]
    /\ store = [s \in Sessions |-> <<>>]
    /\ ttl = [s \in Sessions |-> NoTtl]
    /\ pc = [p \in AllProcs |-> "idle"]
    /\ call = [p \in AllProcs |-> NoCall]
    /\ nreq = 0
    /\ max_context_length \in SpecBudgets
    /\ fn_in = <<>>
    /\ fn_out = Pending

UploadStep(u) ==
    \/ \E filename \in UploadFiles, strategy \in ChunkingStrategies :
          UploadRequest(u, filename, strategy)
    \/ \E too_large \in BOOLEAN : FileRead(u, too_large)
    \/ \E blank \in BOOLEAN : Extract(u, blank)
    \/ \E n \in 0..MaxChunks : Chunk(u, n)
    \/ EmbedChunks(u)
    \/ upsert_vectors(u)
    \/ save_document_metadata(u)
    \/ save_chunks(u)
    \/ Commit(u)
    \/ UploadFail(u)

NextIngest ==
    \/ ConstructServices
    \/ \E u \in Uploads : UploadStep(u)
    \/ \E u \in Uploads : delete_by_document_id(new_document_id(u))

SpecIngest == InitIngest /\ [][NextIngest]_vars

\* ------------------------------------------------------------- SpecUpload

\* Uploads only: nothing is ever deleted from the vector index.
NextUpload ==
    \/ ConstructServices
    \/ \E u \in Uploads : UploadStep(u)

SpecUpload == InitIngest /\ [][NextUpload]_vars

\* ------------------------------------- SpecGate: retrieve_relevant_chunks

\* Scores the index reports in SpecGate.
GateScores == {30, 50, 60, 70, 75, 90}

\* The hit at rank i of a SpecGate result list.
GateHit(i, score) == Hit(ToString(i), score, "t" \o ToString(i), "d1", "f")

\* Result lists of at most top_k hits, by descending score as the index ranks them.
GateInputs ==
    UNION {
        { [i \in 1..n |-> GateHit(i, sc[i])] :
            sc \in { f \in [1..n -> GateScores] : \A i \in 1..(n - 1) : f[i] >= f[i + 1] } }
        : n \in 0..top_k }

InitGate ==
    /\ InitServer
    /\ max_context_length = 3000
    /\ fn_in \in GateInputs
    /\ fn_out = Pending

GateApply ==
    /\ fn_out = Pending
    /\ fn_out' = <<relevant_chunks(fn_in)>>
    /\ UNCHANGED <<ingest, max_context_length, store, ttl, pc, call, nreq, fn_in>>

NextGate == GateApply

SpecGate == InitGate /\ [][NextGate]_vars

\* ---------------------------------------------- SpecContext: _build_context

\* Chunk text lengths and budgets tried in SpecContext.
CtxTextLens == {15, 25, 35, 100, 101}
CtxBudgets == {40, 100}
\* Longest chunk list tried in SpecContext.
CtxMaxChunks == 3

CtxChunk(i, n) ==
    [chunk_id |-> ToString(i), text |-> Rep(n), score |-> 90,
     document_id |-> "d1", filename |-> "f"]

CtxInputs ==
    UNION {
        { [i \in 1..n |-> CtxChunk(i, ln[i])] : ln \in [1..n -> CtxTextLens] }
        : n \in 0..CtxMaxChunks }

InitContext ==
    /\ InitServer
    /\ max_context_length \in CtxBudgets
    /\ fn_in \in CtxInputs
    /\ fn_out = Pending

ContextApply ==
    /\ fn_out = Pending
    /\ fn_out' = <<_build_context(fn_in, max_context_length)>>
    /\ UNCHANGED <<ingest, max_context_length, store, ttl, pc, call, nreq, fn_in>>

NextContext == ContextApply

SpecContext == InitContext /\ [][NextContext]_vars

\* ------------------------------------------------------------------ claims

\* The ranks of the hits of a result list at or above the threshold.
KeptRanks(results) == { i \in 1..Len(results) : results[i].score >= similarity_threshold }

\* C1: retrieve_relevant_chunks returns exactly the hits with score >= threshold
\* (a score equal to the threshold is kept), none below it, in the order of the
\* result list; scores [0.9, 0.75, 0.6, 0.5, 0.3] at threshold 0.7 give the two
\* chunks 0.9 and 0.75.
C1_ThresholdFilter ==
    fn_out # Pending =>
        /\ \A j \in 1..Len(fn_out[1]) : fn_out[1][j].score >= similarity_threshold
        /\ Len(fn_out[1]) = Cardinality(KeptRanks(fn_in))
        /\ \A j \in 1..Len(fn_out[1]) :
              \E k \in KeptRanks(fn_in) :
                 /\ Cardinality({ i \in KeptRanks(fn_in) : i <= k }) = j
                 /\ fn_out[1][j].chunk_id = fn_in[k].id
                 /\ fn_out[1][j].score = fn_in[k].score
                 /\ fn_out[1][j].text = fn_in[k].metadata.chunk_text
        /\ ([i \in 1..Len(fn_in) |-> fn_in[i].score] = <<90, 75, 60, 50, 30>>
              => [j \in 1..Len(fn_out[1]) |-> fn_out[1][j].score] = <<90, 75>>)

\* C1 witness: a result list with a hit exactly at the threshold and a hit below
\* it has been filtered.
C1_Witness ==
    /\ fn_out # Pending
    /\ Len(fn_in) = top_k
    /\ \E i \in 1..Len(fn_in) : fn_in[i].score = similarity_threshold
    /\ \E i \in 1..Len(fn_in) : fn_in[i].score < similarity_threshold
    /\ Len(fn_out[1]) >= 2

\* C2 (as claimed): the text returned by _build_context, labels and separators
\* included, is never longer than the budget.
C2_BudgetRespected ==
    fn_out # Pending =>
        /\ Len(fn_out[1]) <= max_context_length
        /\ ([i \in 1..Len(fn_in) |-> Len(context_part(i, fn_in[i]))] = <<40, 50, 30>>
              /\ max_context_length = 100 => Len(fn_out[1]) = 90)


\* The request has assembled the message list it sends to the model.
Assembled(p) == call[p].messages # <<>>

\* The request ran the vector search and it returned.
Searched(p) == call[p].search_calls = 1 /\ call[p].failed_at # "search"

\* C3: a request with use_rag = false never calls the embedding provider or the
\* vector search, sends the plain conversational system instruction, and
\* returns no sources.
C3_NoRagSkipsRetrieval ==
    \A p \in AllProcs :
        (pc[p] # "idle" /\ ~call[p].use_rag) =>
            /\ call[p].embed_calls = 0
            /\ call[p].search_calls = 0
            /\ Assembled(p) =>
                  call[p].messages[1] = [role |-> "system", content |-> PlainPrompt]
            /\ call[p].sources = <<>>
            /\ pc[p] = "done" => call[p].body.sources = <<>>

\* C3 witness: a request without RAG has returned its answer.
C3_Witness ==
    \E p \in AllProcs : pc[p] = "done" /\ ~call[p].use_rag /\ call[p].llm_calls = 1

\* C4: when use_rag is set and the retrieval gate yields no chunk, the first
\* system instruction is the "nothing relevant" one and not the grounded one,
\* the model is still called, and the returned sources are empty.
C4_UngroundedFallback ==
    \A p \in AllProcs :
        (call[p].use_rag /\ Searched(p) /\ call[p].sources = <<>>) =>
            /\ Assembled(p)
            /\ call[p].messages[1] = [role |-> "system", content |-> UngroundedPrompt]
            /\ call[p].messages[1].content # GroundedPrompt(call[p].context)
            /\ pc[p] = "llm" \/ call[p].llm_calls = 1
            /\ pc[p] = "done" => call[p].body.sources = <<>>

\* C4 witness: a RAG request whose search gave nothing above the threshold has
\* returned its answer.
C4_Witness ==
    \E p \in AllProcs :
        /\ pc[p] = "done" /\ call[p].use_rag /\ Searched(p)
        /\ call[p].sources = <<>> /\ call[p].body.message # ""

\* The requests that returned an answer on session s, and the rank of one of
\* them among these by order of arrival.
DoneOn(s) == { p \in AllProcs : pc[p] = "done" /\ call[p].session_id = s }
TurnNo(p) ==
    Cardinality({ o \in DoneOn(call[p].session_id) : call[o].seq <= call[p].seq })

\* C5: after N successive successful turns on an initially empty session, the
\* window of the last 2N messages is exactly the 2N messages of these turns:
\* turn i's query as user, then turn i's answer as assistant, in turn order.
C5_HistoryOrdering ==
    \A s \in Sessions :
        (\A p \in AllProcs : call[p].session_id = s => pc[p] = "done") =>
            LET N == Cardinality(DoneOn(s))
                h == get_history(store[s], <<2 * N>>)
            IN  /\ Len(h) = 2 * N
                /\ \A p \in DoneOn(s) :
                      /\ h[2 * TurnNo(p) - 1] = [role |-> "user", content |-> call[p].query]
                      /\ h[2 * TurnNo(p)] =
                            [role |-> "assistant", content |-> call[p].response]

\* C5 witness: three turns on one session have returned, one without RAG, one
\* grounded and one ungrounded.
C5_Witness ==
    \E s \in Sessions :
        /\ Cardinality(DoneOn(s)) = 3
        /\ \E p \in DoneOn(s) : ~call[p].use_rag
        /\ \E p \in DoneOn(s) : call[p].use_rag /\ call[p].sources # <<>>
        /\ \E p \in DoneOn(s) : call[p].use_rag /\ call[p].sources = <<>>

\* Some session log holds a message with this text.
Stored(text) ==
    \E s \in Sessions : \E i \in 1..Len(store[s]) : store[s][i].content = text

\* C6: when the model call fails, the request ends in failure with HTTP 500 and
\* no answer, and neither message of the turn is appended to any session log.
C6_GenerationFailure ==
    \A p \in AllProcs :
        call[p].failed_at = "llm" =>
            /\ pc[p] = "failed"
            /\ call[p].status = 500
            /\ call[p].response = "" /\ call[p].body.message = ""
            /\ call[p].pushed = 0
            /\ ~Stored(call[p].query)

\* C6 witness: a model call has failed while the session log already holds an
\* earlier turn.
C6_Witness ==
    \E p \in AllProcs :
        /\ call[p].failed_at = "llm"
        /\ Len(store[call[p].session_id]) = 2

\* C7 (as claimed): a failure of the embedding call or of the vector search is
\* recovered as zero chunks, so it never ends the request in failure.
C7_RetrievalDegrades ==
    \A p \in AllProcs :
        (call[p].use_rag /\ pc[p] = "failed") =>
            call[p].failed_at \notin {"embedding", "search"}

\* C8 (as claimed): a failed history read is treated as an empty history, so it
\* never ends the request in failure.
C8_HistoryReadDegrades ==
    \A p \in AllProcs : pc[p] = "failed" => call[p].failed_at # "history"

\* C9 (as claimed): once the model has produced an answer, the request returns
\* it with HTTP 200 even when an append to the session log fails.
C9_AppendFailureKeepsAnswer ==
    \A p \in AllProcs :
        (call[p].response # "" /\ pc[p] \in {"done", "failed"}) =>
            /\ call[p].status = 200
            /\ call[p].body.message = call[p].response

\* C10 (as claimed): the returned sources are exactly the chunks whose text was
\* placed in the context; a chunk the budget excluded is not among them.
C10_SourcesAreUsedChunks ==
    \A p \in AllProcs :
        pc[p] = "done" =>
            call[p].body.sources =
                formatted_sources(SubSeq(call[p].sources, 1,
                    included(call[p].sources, 1, 0, max_context_length)))


\* The text a list of messages is shown as in the prompt: "Role: content"
\* lines separated by blank lines.
RECURSIVE ShownAs(_)
ShownAs(msgs) ==
    IF msgs = <<>> THEN ""
    ELSE LET m == msgs[Len(msgs)]
             line == (IF m.role = "user" THEN "User: " ELSE "Assistant: ") \o m.content
         IN  IF Len(msgs) = 1 THEN line
             ELSE ShownAs(SubSeq(msgs, 1, Len(msgs) - 1)) \o "\n\n" \o line

\* The last n messages of a log (all of them when it is shorter).
LastOf(log, n) ==
    IF Len(log) <= n THEN log ELSE SubSeq(log, Len(log) - n + 1, Len(log))

\* With turns running one after the other: the log of p's session as it stood
\* when p's call began, i.e. without what p and later requests pushed.
LogBefore(p) ==
    LET s == call[p].session_id
        RECURSIVE Pushed(_)
        Pushed(S) ==
            IF S = {} THEN 0
            ELSE LET o == CHOOSE o \in S : TRUE IN call[o].pushed + Pushed(S \ {o})
        later == { o \in AllProcs : call[o].session_id = s /\ call[o].seq >= call[p].seq }
    IN  SubSeq(store[s], 1, Len(store[s]) - Pushed(later))

\* C11: the history a call puts in the prompt is the window of the last 6
\* messages of the session log as it stood when the call began; it holds
\* neither the call's own query nor its answer, and it ends with the messages
\* of the turn before it (history is read afresh on every call).
C11_ReadThenAppend ==
    \A p \in AllProcs :
        pc[p] \notin {"idle", "get_history"} =>
            LET w == LastOf(LogBefore(p), 6)
            IN  /\ call[p].conversation_history = ShownAs(w)
                /\ \A i \in 1..Len(w) : w[i].content \notin Queries(p) \cup Answers(p)
                /\ \A o \in AllProcs :
                      (call[o].session_id = call[p].session_id
                         /\ call[o].seq + 1 = call[p].seq) =>
                          /\ w[Len(w) - 1] = [role |-> "user", content |-> call[o].query]
                          /\ w[Len(w)] = [role |-> "assistant", content |-> call[o].response]

\* C11 witness: the second of two turns on a session has read its history from
\* a log of eight messages, the last two appended by the first turn.
C11_Witness ==
    \E p, o \in AllProcs :
        /\ pc[o] = "done" /\ pc[p] = "llm"
        /\ call[o].session_id = call[p].session_id
        /\ call[o].seq + 1 = call[p].seq
        /\ Len(LogBefore(p)) = 8
        /\ Len(call[p].messages) = 3


\* C12: a read with limit n >= 0 returns the last min(n, length) messages of
\* the log, oldest first (none for n = 0, the whole log for n beyond its
\* length); get_context_window returns those messages as text.
C12_BoundedWindow ==
    fn_out # Pending =>
        LET w == LastOf(fn_in.log, fn_in.limit)
        IN  IF fn_in.op = "get_history"
            THEN fn_out[1] = w /\ Len(fn_out[1]) <= fn_in.limit
            ELSE fn_out[1] = ShownAs(w)

\* A step that serves a read.
ReadStep == fn_in' # fn_in \/ fn_out' # fn_out

\* C13: a read changes neither the session logs nor their remaining
\* time-to-live, and repeating a read of the same window of an unchanged log
\* returns the same result.
C13_IdempotentRead ==
    [][ReadStep =>
          /\ store' = store
          /\ ttl' = ttl
          /\ (fn_in' = fn_in => fn_out' = fn_out)]_vars

\* C13 witness: a window of a non-empty log has been read while the log had
\* one tick left to live, and the log and that time-to-live are as they were.
C13_Witness ==
    /\ fn_out # Pending
    /\ fn_in.limit = 2
    /\ Len(fn_in.log) > 2
    /\ store[fn_in.session_id] = fn_in.log
    /\ ttl[fn_in.session_id] = 1


IsPrefix(a, b) == Len(a) <= Len(b) /\ SubSeq(b, 1, Len(a)) = a

\* The step deletes the key of session s: DELETE, or the time-to-live runs out.
ClearedOrExpired(s) == ClearHistory(s) \/ (Tick /\ ttl[s] = 1)

\* C14: in every step that neither clears nor expires a session, the
\* session's list before the step is a prefix of its list after the step.
C14_AppendOnly ==
    [][\A s \in Sessions : ~ClearedOrExpired(s) => IsPrefix(store[s], store'[s])]_vars

\* C14 witness: a session's list has grown to the four messages of two calls.
C14_Witness ==
    \E s \in Sessions :
        /\ Len(store[s]) = 4
        /\ \A p \in Procs : pc[p] = "done" /\ call[p].session_id = s

\* C15: nothing makes a call wait for another call on its session: a pending
\* history read and a pending append can always take their step, whatever
\* the other calls are doing.
C15_NoSessionMutex ==
    \A p \in Procs :
        /\ pc[p] = "get_history" => ENABLED HistoryRead(p)
        /\ pc[p] \in {"rpush_user", "rpush_assistant"} => ENABLED Rpush(p)

\* C15 witness: two calls on one session both read the empty history and their
\* appends landed as user A, user B, assistant A, assistant B.
C15_Witness ==
    \E s \in Sessions, p, o \in Procs :
        /\ p # o
        /\ call[p].session_id = s /\ call[o].session_id = s
        /\ call[p].conversation_history = "" /\ call[o].conversation_history = ""
        /\ store[s] = << [role |-> "user", content |-> call[p].query],
                         [role |-> "user", content |-> call[o].query],
                         [role |-> "assistant", content |-> call[p].response],
                         [role |-> "assistant", content |-> call[o].response] >>


\* C16: every completed add_message leaves the session's log with the full
\* time-to-live; a read does not change it; each tick of the clock takes one
\* unit off it; when it runs out, or the session is cleared, the history is
\* empty and the next push starts a new list.
C16_SessionExpiry ==
    [][\A s \in Sessions :
          /\ (\E p \in Procs : call[p].session_id = s /\ Expire(p)) =>
                 store'[s] # <<>> /\ ttl'[s] = TtlTicks
          /\ (\E p \in Procs : call[p].session_id = s /\ HistoryRead(p)) =>
                 store'[s] = store[s] /\ ttl'[s] = ttl[s]
          /\ (Tick /\ ttl[s] > 1) =>
                 store'[s] = store[s] /\ ttl'[s] = ttl[s] - 1
          /\ ((Tick /\ ttl[s] = 1) \/ ClearHistory(s)) =>
                 store'[s] = <<>> /\ ttl'[s] = NoTtl
          /\ \A p \in Procs :
                 (call[p].session_id = s /\ store[s] = <<>> /\ Rpush(p)) =>
                     store'[s] = <<Pushing(p)>>]_vars


\* Characters of chunk text in the first k chunks.
RECURSIVE TextChars(_, _)
TextChars(chunks, k) ==
    IF k = 0 THEN 0 ELSE TextChars(chunks, k - 1) + Len(chunks[k].text)

\* The first k chunks, each as its label line followed by its whole text,
\* separated by blank lines.
RECURSIVE WholeBlocks(_, _)
WholeBlocks(chunks, k) ==
    IF k = 0 THEN ""
    ELSE LET block == "[Source " \o ToString(k) \o " - " \o chunks[k].filename
                         \o "]\n" \o chunks[k].text
         IN  IF k = 1 THEN block ELSE WholeBlocks(chunks, k - 1) \o "\n\n" \o block

\* C19: _build_context returns the blocks of exactly the first k chunks, whole
\* and in input order, where chunk k + 1 is the first whose text would take the
\* character count over the budget (k = 0, the empty text, when the first chunk
\* alone exceeds the budget or the input is empty).
C19_GreedyPrefix ==
    fn_out # Pending =>
        \E k \in 0..Len(fn_in) :
            /\ TextChars(fn_in, k) <= max_context_length
            /\ k < Len(fn_in) => TextChars(fn_in, k + 1) > max_context_length
            /\ fn_out[1] = WholeBlocks(fn_in, k)
            /\ (fn_in = <<>> \/ Len(fn_in[1].text) > max_context_length) => fn_out[1] = ""

\* C19 witness: the second of three chunks did not fit, the third would have.
C19_Witness ==
    /\ fn_out # Pending
    /\ Len(fn_in) = 3
    /\ TextChars(fn_in, 1) <= max_context_length
    /\ TextChars(fn_in, 2) > max_context_length
    /\ TextChars(fn_in, 1) + Len(fn_in[3].text) <= max_context_length
    /\ fn_out[1] = WholeBlocks(fn_in, 1)


\* The system instructions generate_response chooses between.
ModeInstructions(p) ==
    IF ~call[p].use_rag THEN {PlainPrompt}
    ELSE {UngroundedPrompt, GroundedPrompt(call[p].context)}

\* C20: the sequence sent to the model is one mode-specific system
\* instruction, then a system entry with the previous conversation exactly when
\* the history read is non-empty, then the user's query: 2 entries with an
\* empty history and 3 otherwise, the query always last.
C20_InstructionSequence ==
    \A p \in AllProcs :
        Assembled(p) =>
            LET m == call[p].messages
                h == call[p].conversation_history
            IN  /\ m[1].role = "system" /\ m[1].content \in ModeInstructions(p)
                /\ m[Len(m)] = [role |-> "user", content |-> call[p].query]
                /\ Len(m) = IF h = "" THEN 2 ELSE 3
                /\ h # "" =>
                      m[2] = [role |-> "system",
                              content |-> "Previous conversation:\n" \o h]
                /\ pc[p] = "done" => call[p].llm_calls = 1

\* C20 witness: one answered request sent three entries, the other two.
C20_Witness ==
    \E p, o \in AllProcs :
        /\ pc[p] = "done" /\ pc[o] = "done"
        /\ Len(call[p].messages) = 3 /\ call[p].conversation_history # ""
        /\ Len(call[o].messages) = 2 /\ call[o].conversation_history = ""


\* C17: a process whose vector-store or LLM provider type is unsupported
\* never serves a request (it is rejected when the services are constructed),
\* and an upload that names an unknown chunking strategy is rejected before
\* any work is done for it.
C17_EagerConfigErrors ==
    /\ (server.vector_db_type # "qdrant" \/ server.llm_provider # "openai") =>
          /\ server.phase # "serving"
          /\ \A u \in Uploads : up[u].pc = "idle"
    /\ \A u \in Uploads :
          (up[u].pc # "idle" /\ up[u].chunking_strategy \notin {"fixed", "semantic"}) =>
              up[u].work = {}

\* C18: every stored vector and chunk row carries the id of exactly one
\* upload's document, and once a document is deleted no vector and no chunk
\* row refers to its id.
C18_DeletionCascades ==
    [][\A u \in Uploads :
          delete_by_document_id(new_document_id(u)) =>
              /\ \A x \in vectors' \cup rows'.chunks :
                    /\ Cardinality({ o \in Uploads : up'[o].document_id = x.document_id }) = 1
                    /\ x.document_id # new_document_id(u)]_vars


\* C21: whenever the grounded system instruction is the one sent to the model,
\* the context embedded in it is not empty: it holds the text of at least one
\* retrieved chunk.
C21_GroundedMeansGrounded ==
    \A p \in AllProcs :
        (/\ Assembled(p) /\ call[p].llm_calls = 1
         /\ call[p].messages[1].content = GroundedPrompt(call[p].context)) =>
            /\ call[p].context # ""
            /\ \E i \in 1..Len(call[p].sources) :
                  Len(call[p].context) >= Len(call[p].sources[i].text)


\* C22: once a call has ended, by returning or by failing at any step, the
\* session logs hold either both messages of its turn or neither; in the log
\* the query is followed by the answer.
C22_ExchangeAtomicity ==
    \A p \in AllProcs :
        pc[p] \in {"done", "failed"} =>
            LET log == store[call[p].session_id]
                user == [role |-> "user", content |-> call[p].query]
                both == \E i \in 1..(Len(log) - 1), a \in Answers(p) :
                            /\ log[i] = user
                            /\ \E j \in (i + 1)..Len(log) :
                                  log[j] = [role |-> "assistant", content |-> a]
                neither == /\ ~Stored(call[p].query)
                           /\ \A a \in Answers(p) : ~Stored(a)
            IN  both \/ neither


\* C23: a step of a call on session A, or a clear of A, leaves the log and the
\* time-to-live of every other session as they were; the history a call reads
\* is the window of its own session's log; and every message in a session's
\* log is the query or the answer of a call made on that session.
C23_SessionIsolation ==
    [][/\ \A p \in Procs :
             pc'[p] # pc[p] =>
                 \A s \in Sessions \ {call'[p].session_id} :
                     store'[s] = store[s] /\ ttl'[s] = ttl[s]
       /\ \A s \in Sessions :
             ClearHistory(s) =>
                 \A o \in Sessions \ {s} : store'[o] = store[o] /\ ttl'[o] = ttl[o]
       /\ \A p \in Procs :
             HistoryRead(p) =>
                 call'[p].conversation_history =
                     ShownAs(LastOf(store[call[p].session_id], 6))
       /\ \A s \in Sessions : \A i \in 1..Len(store'[s]) :
             \E p \in Procs :
                 /\ call'[p].session_id = s
                 /\ store'[s][i].content \in Queries(p) \cup Answers(p)]_vars

\* C23 witness: two calls on different sessions have both returned, and each
\* session's log holds the exchange of its own call.
C23_Witness ==
    \E p, o \in Procs :
        /\ pc[p] = "done" /\ pc[o] = "done"
        /\ call[p].session_id # call[o].session_id
        /\ Len(store[call[p].session_id]) = 2
        /\ Len(store[call[o].session_id]) = 2
        /\ ttl[call[p].session_id] # ttl[call[o].session_id]


\* C24: in every reachable state a session log that holds messages has a
\* time-to-live set.
C24_EveryLogExpires ==
    \A s \in Sessions : store[s] # <<>> => ttl[s] # NoTtl

\* The document ids that have points in the vector index, that have a row in
\* the documents table, and that have rows in the chunks table.
VectorDocs == { v.document_id : v \in vectors }
DocumentRowDocs == { r.id : r \in rows.documents }
ChunkRowDocs == { r.document_id : r \in rows.chunks }

\* C25: whenever no upload is in flight, the documents that have vectors in
\* the index are exactly those that have metadata and chunk rows in the
\* relational store; an upload that failed has left no vectors behind.
C25_StoresConsistent ==
    (\A u \in Uploads : up[u].pc \in {"idle", "done", "failed"}) =>
        /\ VectorDocs = DocumentRowDocs
        /\ VectorDocs = ChunkRowDocs
        /\ \A u \in Uploads :
              up[u].pc = "failed" => up[u].document_id \notin VectorDocs

====
